---- MODULE Spec2Model ----
(***************************************************************************)
(* The form component of src/src/App.js (App: form state, query, create,   *)
(* the mount effect and the event handlers), the Post model declared in    *)
(* src/unnamed/part_000, and the DataStore collaborator seen as the calls   *)
(* it receives and the outcome (resolve or reject) it gives each of them.   *)
(***************************************************************************)
EXTENDS Integers, Sequences, FiniteSets, Bags, TLC

VARIABLES
    mounted,      \* the mount effect (useEffect(..., [])) has run
    form,         \* useState: the local form state {title, rating}
    qruns,        \* invocations of query(): origin and position
    cruns,        \* invocations of create(): position and captured postData
    queryCalls,   \* DataStore.query calls received (a bag)
    saveCalls,    \* DataStore.save calls received (a bag)
    deleteCalls,  \* DataStore.delete calls received (a bag)
    unhandled,    \* invocations whose promise rejected with nobody handling it
    clicks,       \* clicks of the 'Create Post' button so far
    edits,        \* onChange events so far
    renders,      \* updateForm calls so far (each one re-renders the component)
    mForm,        \* model-layer runs: a form state given to the create call site
    mInit,        \* model-layer runs: a field set given to new Post directly
    mMutator,     \* model-layer runs: the mutation function given to copyOf
    mInstance,    \* model-layer runs: the constructed instance, with its call site
    mCopy         \* model-layer runs: the result of copyOf

appVars == <<mounted, form, qruns, cruns, queryCalls, saveCalls, deleteCalls,
             unhandled, clicks, edits, renders>>
modelVars == <<mForm, mInit, mMutator, mInstance, mCopy>>
vars == <<appVars, modelVars>>

----------------------------------------------------------------------------
(* Bounds of the model. *)

MaxUserEvents == 4

----------------------------------------------------------------------------
(* JavaScript values of the rating field: '' (the initial state), a number *)
(* or NaN (the results of parseInt).                                       *)

JSEmptyString == [type |-> "string", num |-> 0]
JSNaN == [type |-> "NaN", num |-> 0]
JSNumber(n) == [type |-> "number", num |-> n]

(* Texts of the rating input, as sequences of characters. *)
RatingInputs == { <<"1", "0">>, <<"4", "x">>, <<"a">> }

(* Texts of the title input. *)
TitleInputs == { "My First Post", "a" }

WhiteSpace == {" ", "\t", "\n"}

RECURSIVE TrimStart(_)
TrimStart(s) ==
    IF s # <<>> /\ Head(s) \in WhiteSpace THEN TrimStart(Tail(s)) ELSE s

DigitValue(c) ==
    CASE c = "0" -> 0 [] c = "1" -> 1 [] c = "2" -> 2 [] c = "3" -> 3
      [] c = "4" -> 4 [] c = "5" -> 5 [] c = "6" -> 6 [] c = "7" -> 7
      [] c = "8" -> 8 [] c = "9" -> 9
      [] c \in {"a", "A"} -> 10 [] c \in {"b", "B"} -> 11
      [] c \in {"c", "C"} -> 12 [] c \in {"d", "D"} -> 13
      [] c \in {"e", "E"} -> 14 [] c \in {"f", "F"} -> 15
      [] OTHER -> 99

(* The longest prefix of s made of digits of the radix, as {seen, value}. *)
RECURSIVE ParseDigits(_, _, _)
ParseDigits(s, radix, acc) ==
    IF s # <<>> /\ DigitValue(Head(s)) < radix
    THEN ParseDigits(Tail(s), radix,
                     [seen |-> TRUE, value |-> acc.value * radix + DigitValue(Head(s))])
    ELSE acc

(* parseInt(text) with no radix argument. *)
parseInt(text) ==
    LET s0 == TrimStart(text)
        neg == s0 # <<>> /\ Head(s0) = "-"
        s1 == IF s0 # <<>> /\ Head(s0) \in {"+", "-"} THEN Tail(s0) ELSE s0
        hex == Len(s1) >= 2 /\ s1[1] = "0" /\ s1[2] \in {"x", "X"}
        s2 == IF hex THEN Tail(Tail(s1)) ELSE s1
        r == ParseDigits(s2, IF hex THEN 16 ELSE 10, [seen |-> FALSE, value |-> 0])
    IN  IF ~r.seen THEN JSNaN
        ELSE JSNumber(IF neg THEN 0 - r.value ELSE r.value)

----------------------------------------------------------------------------
(* The Post model. *)

PostStatus == [ACTIVE |-> "ACTIVE", INACTIVE |-> "INACTIVE"]

PostFields == {"id", "title", "rating", "status"}

(* new Post(init): the fields of init, with an identifier assigned. *)
Post(init, id) ==
    [id |-> id, title |-> init.title, rating |-> init.rating, status |-> init.status]

(* A mutation function: the draft fields it assigns and the values it gives. *)
ApplyMutator(draft, mutator) ==
    [k \in PostFields |-> IF k \in mutator.touched THEN mutator.vals[k] ELSE draft[k]]

(* A copyOf that lets the mutation function's write to id through. *)
copyOfKeepsDraftId(source, mutator) == ApplyMutator(source, mutator)

(* Post.copyOf(source, mutator). *)
copyOf(source, mutator) ==
    [ApplyMutator(source, mutator) EXCEPT !.id = source.id]

----------------------------------------------------------------------------
(* The component. *)

EmptyForm == [title |-> "", rating |-> JSEmptyString]

HardCodedId == "4d5a08f3-d0ac-42bd-a19e-170991a4d79b"
NoArgument == "undefined"

QueryAllCall(i) == [model |-> "Post", arg |-> NoArgument, by |-> i]
QueryByIdCall(i) == [model |-> "Post", arg |-> HardCodedId, by |-> i]

Issue(bag, call) == bag (+) SetToBag({call})

updateForm(value) ==
    /\ form' = value
    /\ renders' = renders + 1

Init ==
    /\ mounted = FALSE
    /\ form = EmptyForm
    /\ qruns = <<>>
    /\ cruns = <<>>
    /\ queryCalls = EmptyBag
    /\ saveCalls = EmptyBag
    /\ deleteCalls = EmptyBag
    /\ unhandled = {}
    /\ clicks = 0
    /\ edits = 0
    /\ renders = 0
    /\ mForm = EmptyForm
    /\ mInit = [title |-> "", rating |-> JSEmptyString, status |-> PostStatus.INACTIVE]
    /\ mMutator = [touched |-> {}, vals |-> Post(mInit, 0)]
    /\ mInstance = <<>>
    /\ mCopy = <<>>

(* query(), to its first await: DataStore.query(Post) is issued. *)
query(origin) ==
    /\ qruns' = Append(qruns, [origin |-> origin, pc |-> "awaitAll"])
    /\ queryCalls' = Issue(queryCalls, QueryAllCall(Len(qruns) + 1))

(* A mount effect that runs query twice. *)
MountTwice ==
    /\ ~mounted
    /\ mounted' = TRUE
    /\ qruns' = qruns \o << [origin |-> "mount", pc |-> "awaitAll"],
                            [origin |-> "mount", pc |-> "awaitAll"] >>
    /\ queryCalls' = Issue(Issue(queryCalls, QueryAllCall(1)), QueryAllCall(2))
    /\ UNCHANGED <<form, cruns, saveCalls, deleteCalls, unhandled, clicks, edits,
                   renders, modelVars>>

(* useEffect(() => { query() }, []) *)
Mount ==
    /\ ~mounted
    /\ mounted' = TRUE
    /\ query("mount")
    /\ UNCHANGED <<form, cruns, saveCalls, deleteCalls, unhandled, clicks, edits,
                   renders, modelVars>>

ButtonRuns == {i \in DOMAIN qruns : qruns[i].origin = "button"}

(* The user's events so far: edits and clicks of either button. *)
UserEvents == edits + clicks + Cardinality(ButtonRuns)

(* onClick={query} of the QUERY button *)
QueryClick ==
    /\ mounted
    /\ UserEvents < MaxUserEvents
    /\ query("button")
    /\ UNCHANGED <<mounted, form, cruns, saveCalls, deleteCalls, unhandled, clicks,
                   edits, renders, modelVars>>

(* A continuation of query that also resets the form. *)
QueryAllResolvedResetsForm(i) ==
    /\ i \in DOMAIN qruns
    /\ qruns[i].pc = "awaitAll"
    /\ qruns' = [qruns EXCEPT ![i].pc = "awaitById"]
    /\ queryCalls' = Issue(queryCalls, QueryByIdCall(i))
    /\ updateForm(EmptyForm)
    /\ UNCHANGED <<mounted, cruns, saveCalls, deleteCalls, unhandled, clicks,
                   edits, modelVars>>

(* DataStore.query(Post) resolves: posts are logged, the query by id is issued. *)
QueryAllResolved(i) ==
    /\ i \in DOMAIN qruns
    /\ qruns[i].pc = "awaitAll"
    /\ qruns' = [qruns EXCEPT ![i].pc = "awaitById"]
    /\ queryCalls' = Issue(queryCalls, QueryByIdCall(i))
    /\ UNCHANGED <<mounted, form, cruns, saveCalls, deleteCalls, unhandled, clicks,
                   edits, renders, modelVars>>

(* A query that swallows the failure of the first call and goes on. *)
QueryAllRejectedContinues(i) ==
    /\ i \in DOMAIN qruns
    /\ qruns[i].pc = "awaitAll"
    /\ qruns' = [qruns EXCEPT ![i].pc = "rejectedAll"]
    /\ queryCalls' = Issue(queryCalls, QueryByIdCall(i))
    /\ UNCHANGED <<mounted, form, cruns, saveCalls, deleteCalls, unhandled, clicks,
                   edits, renders, modelVars>>

(* DataStore.query(Post) rejects: the await throws, query's promise rejects. *)
QueryAllRejected(i) ==
    /\ i \in DOMAIN qruns
    /\ qruns[i].pc = "awaitAll"
    /\ qruns' = [qruns EXCEPT ![i].pc = "rejectedAll"]
    /\ unhandled' = unhandled \cup {<<"query", i>>}
    /\ UNCHANGED <<mounted, form, cruns, queryCalls, saveCalls, deleteCalls, clicks,
                   edits, renders, modelVars>>

(* DataStore.query(Post, id) resolves: query returns. *)
QueryByIdResolved(i) ==
    /\ i \in DOMAIN qruns
    /\ qruns[i].pc = "awaitById"
    /\ qruns' = [qruns EXCEPT ![i].pc = "done"]
    /\ UNCHANGED <<mounted, form, cruns, queryCalls, saveCalls, deleteCalls,
                   unhandled, clicks, edits, renders, modelVars>>

(* DataStore.query(Post, id) rejects. *)
QueryByIdRejected(i) ==
    /\ i \in DOMAIN qruns
    /\ qruns[i].pc = "awaitById"
    /\ qruns' = [qruns EXCEPT ![i].pc = "rejectedById"]
    /\ unhandled' = unhandled \cup {<<"query", i>>}
    /\ UNCHANGED <<mounted, form, cruns, queryCalls, saveCalls, deleteCalls, clicks,
                   edits, renders, modelVars>>

(* onChange of the title input *)
TitleChange(value) ==
    /\ mounted
    /\ UserEvents < MaxUserEvents
    /\ edits' = edits + 1
    /\ updateForm([form EXCEPT !.title = value])
    /\ UNCHANGED <<mounted, qruns, cruns, queryCalls, saveCalls, deleteCalls,
                   unhandled, clicks, modelVars>>

(* onChange of the rating input *)
RatingChange(value) ==
    /\ mounted
    /\ UserEvents < MaxUserEvents
    /\ edits' = edits + 1
    /\ updateForm([form EXCEPT !.rating = parseInt(value)])
    /\ UNCHANGED <<mounted, qruns, cruns, queryCalls, saveCalls, deleteCalls,
                   unhandled, clicks, modelVars>>

(* A postData whose status is the one of the README's example. *)
PostDataActive(f) ==
    [title |-> f.title, rating |-> f.rating, status |-> PostStatus.ACTIVE]

(* const postData = {...form, status: PostStatus.INACTIVE} *)
PostData(f) ==
    [title |-> f.title, rating |-> f.rating, status |-> PostStatus.INACTIVE]

SaveCall(i, postData) == [arg |-> Post(postData, i), by |-> i]

NewRun(postData) ==
    [pc |-> "awaitSave", postData |-> postData, edits |-> edits, renders |-> renders]

(* A create that issues its save twice. *)
createTwice ==
    /\ cruns' = Append(cruns, NewRun(PostData(form)))
    /\ saveCalls' = Issue(Issue(saveCalls, SaveCall(Len(cruns) + 1, PostData(form))),
                          SaveCall(Len(cruns) + 1, PostData(form)))

(* A create with an in-flight guard. *)
createGuarded ==
    IF \E i \in DOMAIN cruns : cruns[i].pc = "awaitSave"
    THEN UNCHANGED <<cruns, saveCalls>>
    ELSE /\ cruns' = Append(cruns, NewRun(PostData(form)))
         /\ saveCalls' = Issue(saveCalls, SaveCall(Len(cruns) + 1, PostData(form)))

(* create(), to its await: DataStore.save(new Post(postData)) is issued. *)
create ==
    /\ cruns' = Append(cruns, NewRun(PostData(form)))
    /\ saveCalls' = Issue(saveCalls, SaveCall(Len(cruns) + 1, PostData(form)))

(* A 'Create Post' that waits for the outstanding queries. *)
CreateClickAfterQueries ==
    /\ mounted
    /\ UserEvents < MaxUserEvents
    /\ \A i \in DOMAIN qruns : qruns[i].pc \notin {"awaitAll", "awaitById"}
    /\ clicks' = clicks + 1
    /\ create
    /\ UNCHANGED <<mounted, form, qruns, queryCalls, deleteCalls, unhandled, edits,
                   renders, modelVars>>

(* onClick={create} of the 'Create Post' button *)
CreateClick ==
    /\ mounted
    /\ UserEvents < MaxUserEvents
    /\ clicks' = clicks + 1
    /\ create
    /\ UNCHANGED <<mounted, form, qruns, queryCalls, deleteCalls, unhandled, edits,
                   renders, modelVars>>

(* A continuation of create that keeps a form edited since the click. *)
SaveResolvedKeepsEdits(i) ==
    /\ i \in DOMAIN cruns
    /\ cruns[i].pc = "awaitSave"
    /\ cruns' = [cruns EXCEPT ![i].pc = "done"]
    /\ IF form.title = cruns[i].postData.title /\ form.rating = cruns[i].postData.rating
       THEN updateForm(EmptyForm)
       ELSE UNCHANGED <<form, renders>>
    /\ UNCHANGED <<mounted, qruns, queryCalls, saveCalls, deleteCalls, unhandled,
                   clicks, edits, modelVars>>

(* DataStore.save resolves: the message is logged and the form is reset. *)
SaveResolved(i) ==
    /\ i \in DOMAIN cruns
    /\ cruns[i].pc = "awaitSave"
    /\ cruns' = [cruns EXCEPT ![i].pc = "done"]
    /\ updateForm(EmptyForm)
    /\ UNCHANGED <<mounted, qruns, queryCalls, saveCalls, deleteCalls, unhandled,
                   clicks, edits, modelVars>>

(* A create that resets the form in a finally block. *)
SaveRejectedResetsForm(i) ==
    /\ i \in DOMAIN cruns
    /\ cruns[i].pc = "awaitSave"
    /\ cruns' = [cruns EXCEPT ![i].pc = "rejected"]
    /\ unhandled' = unhandled \cup {<<"create", i>>}
    /\ updateForm(EmptyForm)
    /\ UNCHANGED <<mounted, qruns, queryCalls, saveCalls, deleteCalls, clicks,
                   edits, modelVars>>

(* DataStore.save rejects: the await throws, create's promise rejects. *)
SaveRejected(i) ==
    /\ i \in DOMAIN cruns
    /\ cruns[i].pc = "awaitSave"
    /\ cruns' = [cruns EXCEPT ![i].pc = "rejected"]
    /\ unhandled' = unhandled \cup {<<"create", i>>}
    /\ UNCHANGED <<mounted, form, qruns, queryCalls, saveCalls, deleteCalls, clicks,
                   edits, renders, modelVars>>

QueryRuns == 1 .. (MaxUserEvents + 1)
CreateRuns == 1 .. MaxUserEvents

Next ==
    \/ Mount
    \/ QueryClick
    \/ \E i \in QueryRuns : QueryAllResolved(i)
    \/ \E i \in QueryRuns : QueryAllRejected(i)
    \/ \E i \in QueryRuns : QueryByIdResolved(i)
    \/ \E i \in QueryRuns : QueryByIdRejected(i)
    \/ \E value \in TitleInputs : TitleChange(value)
    \/ \E value \in RatingInputs : RatingChange(value)
    \/ CreateClick
    \/ \E i \in CreateRuns : SaveResolved(i)
    \/ \E i \in CreateRuns : SaveRejected(i)

Spec == Init /\ [][Next]_vars

----------------------------------------------------------------------------
(* The model layer on its own: instances are constructed at the two call    *)
(* sites the repository shows (new Post with a literal field set, as in the *)
(* README's 'Saving data'; new Post(postData) in create) and copied with    *)
(* Post.copyOf, with the inputs drawn from bounded sets.                    *)

ModelIds == {1, 2}
ModelTitles == {"My First Post", "title 1"}
ModelRatings == {JSNumber(10), JSNumber(4)}
ModelStatuses == {PostStatus.ACTIVE, PostStatus.INACTIVE}

Forms == [title : {"", "My First Post"},
          rating : {JSEmptyString} \cup {parseInt(text) : text \in RatingInputs}]
ModelInits == [title : ModelTitles, rating : ModelRatings, status : ModelStatuses]
Mutators == [touched : SUBSET PostFields,
             vals : [id : ModelIds, title : ModelTitles, rating : ModelRatings,
                     status : ModelStatuses]]

InitModel ==
    /\ mounted = FALSE
    /\ form = EmptyForm
    /\ qruns = <<>>
    /\ cruns = <<>>
    /\ queryCalls = EmptyBag
    /\ saveCalls = EmptyBag
    /\ deleteCalls = EmptyBag
    /\ unhandled = {}
    /\ clicks = 0
    /\ edits = 0
    /\ renders = 0
    /\ mForm \in Forms
    /\ mInit \in ModelInits
    /\ mMutator \in Mutators
    /\ mInstance = <<>>
    /\ mCopy = <<>>

(* new Post({title, rating, status}) with a literal field set *)
NewPost(id) ==
    /\ mInstance = <<>>
    /\ mInstance' = << [site |-> "new", post |-> Post(mInit, id)] >>
    /\ UNCHANGED <<appVars, mForm, mInit, mMutator, mCopy>>

(* new Post(postData) at create's call site *)
NewPostInCreate(id) ==
    /\ mInstance = <<>>
    /\ mInstance' = << [site |-> "create", post |-> Post(PostData(mForm), id)] >>
    /\ UNCHANGED <<appVars, mForm, mInit, mMutator, mCopy>>

(* Post.copyOf(original, updated => { ... }) *)
CopyOfInstance ==
    /\ mInstance # <<>>
    /\ mCopy = <<>>
    /\ mCopy' = << copyOf(mInstance[1].post, mMutator) >>
    /\ UNCHANGED <<appVars, mForm, mInit, mMutator, mInstance>>

NextModel ==
    \/ \E id \in ModelIds : NewPost(id)
    \/ \E id \in ModelIds : NewPostInCreate(id)
    \/ CopyOfInstance

SpecModel == InitModel /\ [][NextModel]_vars

----------------------------------------------------------------------------
(* What the claims speak of. *)

MountRuns == {i \in DOMAIN qruns : qruns[i].origin = "mount"}

QueryAllBy(i) == CopiesIn(QueryAllCall(i), queryCalls)
QueryByIdBy(i) == CopiesIn(QueryByIdCall(i), queryCalls)
SavesBy(i) ==
    BagCardinality([c \in {d \in DOMAIN saveCalls : d.by = i} |-> saveCalls[c]])

QueryAllCalls ==
    BagCardinality([c \in {d \in DOMAIN queryCalls : d.arg = NoArgument} |-> queryCalls[c]])
QueryByIdCalls ==
    BagCardinality([c \in {d \in DOMAIN queryCalls : d.arg = HardCodedId} |-> queryCalls[c]])

Outstanding(pc) == pc \in {"awaitAll", "awaitById"}
PastQueryAll(pc) == pc \in {"awaitById", "done", "rejectedById"}

SaveResolves(i) == cruns[i].pc = "awaitSave" /\ cruns'[i].pc = "done"
SaveRejects(i) == cruns[i].pc = "awaitSave" /\ cruns'[i].pc = "rejected"

SameData(a, b) == a.title = b.title /\ a.rating = b.rating /\ a.status = b.status

----------------------------------------------------------------------------
(* C1: one submit of the creation form issues exactly one save call, whose  *)
(* payload is a Post of {title: form.title, rating: form.rating, status:    *)
(* INACTIVE}, and the step in which that save resolves leaves the form at   *)
(* {title: '', rating: ''}.                                                 *)
C1_SubmitSavesOnceThenResets ==
    [][ /\ clicks' = clicks + 1 =>
             /\ \E call \in DOMAIN saveCalls' :
                   /\ saveCalls' = Issue(saveCalls, call)
                   /\ call.arg.title = form.title
                   /\ call.arg.rating = form.rating
                   /\ call.arg.status = PostStatus.INACTIVE
             /\ queryCalls' = queryCalls
             /\ deleteCalls' = deleteCalls
        /\ \A i \in DOMAIN cruns : SaveResolves(i) => form' = EmptyForm
      ]_vars

(* C1, its instance: title 'My First Post' and rating 10 were typed, one    *)
(* click was made, its one save carried them with INACTIVE and resolved,    *)
(* and the form is reset.                                                   *)
C1_Witness ==
    /\ clicks = 1
    /\ BagCardinality(saveCalls) = 1
    /\ \E call \in DOMAIN saveCalls :
          /\ call.arg.title = "My First Post"
          /\ call.arg.rating = JSNumber(10)
          /\ call.arg.status = "INACTIVE"
          /\ cruns[call.by].pc = "done"
    /\ form = [title |-> "", rating |-> JSEmptyString]

----------------------------------------------------------------------------
(* C2, as stated: once the query run started by the mount effect is over,   *)
(* and with no user event, exactly one query-all call and exactly one       *)
(* query-by-identifier call have been issued, and no save and no delete.    *)
C2_MountQueriesOnceEach ==
    (/\ mounted
     /\ UserEvents = 0
     /\ \A i \in MountRuns : ~Outstanding(qruns[i].pc))
    => /\ QueryAllCalls = 1
       /\ QueryByIdCalls = 1
       /\ saveCalls = EmptyBag
       /\ deleteCalls = EmptyBag

(* C2, amended: with no user event, mounting issues exactly one query-all   *)
(* call and at most one query-by-identifier call: exactly one once the      *)
(* query-all call has resolved, none while it is pending or after it has    *)
(* rejected; no other query, no save and no delete is issued.               *)
C2_MountQueries ==
    (mounted /\ UserEvents = 0)
    => /\ Cardinality(MountRuns) = 1
       /\ QueryAllCalls = 1
       /\ \A i \in MountRuns :
             /\ QueryAllBy(i) = 1
             /\ QueryByIdCalls = QueryByIdBy(i)
             /\ QueryByIdBy(i) = (IF PastQueryAll(qruns[i].pc) THEN 1 ELSE 0)
       /\ BagCardinality(queryCalls) = QueryAllCalls + QueryByIdCalls
       /\ saveCalls = EmptyBag
       /\ deleteCalls = EmptyBag

(* C2: the mount-time run went through both queries, with no user event. *)
C2_Witness ==
    /\ mounted
    /\ UserEvents = 0
    /\ \A i \in MountRuns : qruns[i].pc = "done"
    /\ QueryAllCalls = 1
    /\ QueryByIdCalls = 1

----------------------------------------------------------------------------
----------------------------------------------------------------------------
(* C4: a constructed Post has the title, rating and status it was given,    *)
(* for status ACTIVE and INACTIVE; one constructed at create's call site    *)
(* has the form's title and rating and status INACTIVE.                     *)
C4_ConstructorKeepsFields ==
    mInstance # <<>> =>
        /\ mInstance[1].site = "new" =>
              /\ mInstance[1].post.title = mInit.title
              /\ mInstance[1].post.rating = mInit.rating
              /\ mInstance[1].post.status = mInit.status
        /\ mInstance[1].site = "create" =>
              /\ mInstance[1].post.title = mForm.title
              /\ mInstance[1].post.rating = mForm.rating
              /\ mInstance[1].post.status = "INACTIVE"

(* C4: a Post was constructed at create's call site from a filled form. *)
C4_Witness ==
    /\ mInstance # <<>>
    /\ mInstance[1].site = "create"
    /\ mForm.title = "My First Post"
    /\ mForm.rating = JSNumber(10)
    /\ mInstance[1].post.status = "INACTIVE"

----------------------------------------------------------------------------
(* C5: the step in which create's save rejects leaves the form as it was,   *)
(* issues no call, and leaves create's promise rejected with no handler;    *)
(* a create whose save rejected has issued one save, and never another.     *)
C5_RejectedSaveUnhandled ==
    /\ [](\A i \in DOMAIN cruns :
            cruns[i].pc = "rejected" => SavesBy(i) = 1 /\ <<"create", i>> \in unhandled)
    /\ [][\A i \in DOMAIN cruns :
            /\ SaveRejects(i) =>
                  /\ form' = form
                  /\ renders' = renders
                  /\ saveCalls' = saveCalls
                  /\ queryCalls' = queryCalls
                  /\ <<"create", i>> \in unhandled'
            /\ cruns[i].pc = "rejected" => cruns'[i] = cruns[i]
         ]_vars

(* C5: a save rejected and the form still holds what was submitted. *)
C5_Witness ==
    \E i \in DOMAIN cruns :
        /\ cruns[i].pc = "rejected"
        /\ form.title = "My First Post"
        /\ form.title = cruns[i].postData.title
        /\ form.rating = cruns[i].postData.rating
        /\ BagCardinality(saveCalls) = 1

----------------------------------------------------------------------------
(* C6: the form state changes only in a title onChange (title alone), a     *)
(* rating onChange (rating alone) or the reset of a create whose save       *)
(* resolved; no step of query, started at mount or by the QUERY button,     *)
(* resolving or rejecting, calls updateForm.                                *)
C6_FormOwnedByHandlers ==
    [][ /\ form' # form =>
             \/ edits' = edits + 1 /\ form'.rating = form.rating
             \/ edits' = edits + 1 /\ form'.title = form.title
             \/ form' = EmptyForm /\ \E i \in DOMAIN cruns : SaveResolves(i)
        /\ (qruns' # qruns \/ queryCalls' # queryCalls) =>
             form' = form /\ renders' = renders
      ]_vars

(* C6: a mount-time run that rejected and a button run that resolved both   *)
(* ended while the form held an edit.                                       *)
C6_Witness ==
    /\ form.title = "a"
    /\ edits = 1
    /\ renders = 1
    /\ \E i \in MountRuns : qruns[i].pc = "rejectedById"
    /\ \E i \in ButtonRuns : qruns[i].pc = "done"

----------------------------------------------------------------------------
(* C7: while a mount-time query call is outstanding a click of 'Create      *)
(* Post' issues its save (as long as the model admits another user event); *)
(* an outstanding query call can resolve or reject whatever saves are       *)
(* outstanding; no step of create touches a query run and no step of query  *)
(* touches a create run.                                                    *)
C7_CreateNotOrderedAfterMountQueries ==
    /\ []((/\ mounted
           /\ UserEvents < MaxUserEvents
           /\ \E i \in MountRuns : Outstanding(qruns[i].pc))
          => ENABLED CreateClick)
    /\ [](\A i \in DOMAIN qruns :
            /\ qruns[i].pc = "awaitAll" =>
                  ENABLED QueryAllResolved(i) /\ ENABLED QueryAllRejected(i)
            /\ qruns[i].pc = "awaitById" =>
                  ENABLED QueryByIdResolved(i) /\ ENABLED QueryByIdRejected(i))
    /\ [](\A i \in DOMAIN cruns :
            cruns[i].pc = "awaitSave" => ENABLED SaveResolved(i) /\ ENABLED SaveRejected(i))
    /\ [][ /\ (cruns' # cruns \/ saveCalls' # saveCalls) =>
                qruns' = qruns /\ queryCalls' = queryCalls
           /\ (qruns' # qruns \/ queryCalls' # queryCalls) =>
                cruns' = cruns /\ saveCalls' = saveCalls
         ]_vars

(* C7: a create ran to its end while the mount-time query-all call was      *)
(* still outstanding.                                                       *)
C7_Witness ==
    /\ \E i \in MountRuns : qruns[i].pc = "awaitAll"
    /\ \E i \in DOMAIN cruns : cruns[i].pc = "done"
    /\ BagCardinality(saveCalls) = 1
    /\ BagCardinality(queryCalls) = 1

----------------------------------------------------------------------------
(* C8: a run of query has issued its query-by-identifier call exactly when  *)
(* its query-all call has resolved; a run whose query-all call rejected     *)
(* has issued none and stays where it is.                                   *)
C8_ByIdOnlyAfterQueryAllResolved ==
    /\ [](\A i \in DOMAIN qruns :
            /\ QueryAllBy(i) = 1
            /\ PastQueryAll(qruns[i].pc) => QueryByIdBy(i) = 1
            /\ qruns[i].pc \in {"awaitAll", "rejectedAll"} => QueryByIdBy(i) = 0)
    /\ [][\A i \in DOMAIN qruns :
            /\ QueryByIdBy(i)' > QueryByIdBy(i) =>
                  qruns[i].pc = "awaitAll" /\ qruns'[i].pc = "awaitById"
            /\ qruns[i].pc = "rejectedAll" => qruns'[i] = qruns[i]
         ]_vars

(* C8: one run's query-all call rejected, another run got through both. *)
C8_Witness ==
    /\ \E i \in DOMAIN qruns : qruns[i].pc = "rejectedAll" /\ QueryByIdBy(i) = 0
    /\ \E i \in DOMAIN qruns : qruns[i].pc = "done" /\ QueryByIdBy(i) = 1
    /\ QueryAllCalls = 2
    /\ QueryByIdCalls = 1

----------------------------------------------------------------------------
(* C9, as stated: after k clicks exactly k save calls have been issued,     *)
(* and two clicks with no edit of the form (no onChange) between them       *)
(* carry the same payload.                                                  *)
C9_SamePayloadWithoutEdit ==
    /\ BagCardinality(saveCalls) = clicks
    /\ \A c, d \in DOMAIN saveCalls :
          cruns[c.by].edits = cruns[d.by].edits => SameData(c.arg, d.arg)

(* C9, amended: every click of 'Create Post' issues its own save call, also *)
(* while earlier saves are outstanding, so after k clicks exactly k save    *)
(* calls have been issued; two clicks between which the form state was not  *)
(* changed, neither by an edit nor by the reset of a save that resolved,    *)
(* carry the same title, rating and status.                                 *)
C9_EveryClickSaves ==
    /\ BagCardinality(saveCalls) = clicks
    /\ Len(cruns) = clicks
    /\ \A i \in DOMAIN cruns : SavesBy(i) = 1
    /\ \A c, d \in DOMAIN saveCalls :
          cruns[c.by].renders = cruns[d.by].renders => SameData(c.arg, d.arg)
    /\ (/\ mounted
        /\ UserEvents < MaxUserEvents
        /\ \E i \in DOMAIN cruns : cruns[i].pc = "awaitSave")
       => ENABLED CreateClick

(* C9: two clicks with no change of the form between them, both saves       *)
(* outstanding, both carrying the typed title.                              *)
C9_Witness ==
    /\ clicks = 2
    /\ BagCardinality(saveCalls) = 2
    /\ \A i \in DOMAIN cruns :
          /\ cruns[i].pc = "awaitSave"
          /\ cruns[i].postData.title = "My First Post"
          /\ cruns[i].renders = 1

----------------------------------------------------------------------------
(* C10: the step in which a save resolves sets the form to {title: '',      *)
(* rating: ''} whatever it held; an edit changes no issued call and no      *)
(* captured postData, and every save call carries the postData its create   *)
(* captured at the click.                                                   *)
C10_EditsDuringSaveDiscarded ==
    /\ [](\A c \in DOMAIN saveCalls :
            c.by \in DOMAIN cruns /\ SameData(c.arg, cruns[c.by].postData))
    /\ [][ /\ \A i \in DOMAIN cruns : SaveResolves(i) => form' = EmptyForm
           /\ edits' # edits => saveCalls' = saveCalls /\ cruns' = cruns
         ]_vars

(* C10: the form was edited after the one click, while its save was         *)
(* outstanding, and the save's resolution emptied it; the save carried the  *)
(* title typed before the click.                                            *)
C10_Witness ==
    /\ clicks = 1
    /\ edits = 2
    /\ \E i \in DOMAIN cruns :
          /\ cruns[i].pc = "done"
          /\ cruns[i].edits = 1
          /\ cruns[i].postData.title = "My First Post"
    /\ form = EmptyForm

====
